---- MODULE Spec2Model ----
(***************************************************************************)
(* Model of abra/analysis/seasonality_advanced.py:                         *)
(* calculate_seasonality_by_country, the trend modeler (linear,            *)
(* exponential and logarithmic fit, model selection, volatility, forecast),*)
(* under the specification Spec; of abra/analysis/serpapi: the             *)
(* SerpAPIClient with its response cache and the SerpAPIAggregator, under  *)
(* the specifications ClientSpec and AggregatorSpec; of                    *)
(* abra/analysis/historical.py: the history file, under HistorySpec, and   *)
(* compare_with_history, under ComparisonSpec; of                          *)
(* compare_seasonality_countries, under CountriesSpec; and of              *)
(* abra/analysis/insights.py: analyze_all_channels, under ChannelsSpec.    *)
(*                                                                         *)
(* Numbers.  The code computes in IEEE doubles; the model computes in      *)
(* integers.  Observations are integers (Google Trends interest values).   *)
(* Sums of squares and cross products are kept exact; quotients are        *)
(* fixed-point with Prec units per 1; natural logarithms are centi-nepers  *)
(* (LnScale units per 1) read from a rounded table; exponentials are kept  *)
(* as e^k * m/Prec with an integer k and a mantissa m computed by a Taylor *)
(* sum.  A float that is NaN or infinite is the tagged value NaN.          *)
(***************************************************************************)
EXTENDS Integers, Sequences, FiniteSets, TLC

VARIABLES pc, timeline_data, country_code, result, exception, log_args

(* The SerpAPI client: self.cache and self.request_count of the client in  *)
(* use, the wall clock, the HTTP requests the network has seen, the last   *)
(* operation with what it returned, and (a history variable) the request   *)
(* whose response each cache entry holds.                                  *)
VARIABLES cache, request_count, now, http_requests, last, stored_by

(* The history file analysis_history.json, and (a history variable) the    *)
(* records handed to save_analysis_to_history so far, in call order.       *)
VARIABLES history_file, save_calls

history_vars == <<history_file, save_calls>>

modeler_vars == <<pc, timeline_data, country_code, result, exception, log_args>>

client_vars == <<cache, request_count, now, http_requests, last, stored_by>>

vars == <<modeler_vars, client_vars, history_vars>>

----------------------------------------------------------------------------
(* Bounds of the enumerated inputs *)

MaxLen == 4
MaxVal == 3

(* Fixed-point representation *)

Prec == 10000
LnScale == 100
AvgScale == 100
VolScale == 1000
IntMax == (2^30 - 1) * 2 + 1

----------------------------------------------------------------------------
(* Tagged floats *)

NaN == [nan |-> TRUE, v |-> 0]

Num(v) == [nan |-> FALSE, v |-> v]

Gt(a, b) == ~a.nan /\ ~b.nan /\ a.v > b.v

AllFinite(s) == \A i \in 1..Len(s) : ~s[i].nan

Raw(s) == [i \in 1..Len(s) |-> s[i].v]

NumSeq(s) == [i \in 1..Len(s) |-> Num(s[i])]

----------------------------------------------------------------------------
(* Integer helpers *)

RECURSIVE Sum(_)
Sum(s) == IF s = <<>> THEN 0 ELSE Head(s) + Sum(Tail(s))

Dot(s, t) == Sum([i \in 1..Len(s) |-> s[i] * t[i]])

RECURSIVE ISqrtStep(_, _, _)
ISqrtStep(x, lo, hi) ==
    IF lo >= hi THEN lo
    ELSE LET mid == (lo + hi + 1) \div 2
         IN IF mid * mid <= x THEN ISqrtStep(x, mid, hi)
            ELSE ISqrtStep(x, lo, mid - 1)

ISqrt(x) == ISqrtStep(x, 0, 46340)

(* sqrt(a * b) for a, b > 0; when the product exceeds the machine word the *)
(* low-order bits of the larger factor are dropped, as a float would.      *)
RECURSIVE SqrtProd(_, _)
SqrtProd(a, b) ==
    IF a <= IntMax \div b THEN ISqrt(a * b)
    ELSE IF a >= b THEN 2 * SqrtProd(a \div 4, b)
    ELSE 2 * SqrtProd(a, b \div 4)

----------------------------------------------------------------------------
(* numpy / math / scipy functions the routine calls *)

LnTab == <<0, 69, 110, 139, 161, 179, 195, 208, 220, 230, 240, 248, 256, 264,
           271, 277, 283, 289, 294, 300, 304, 309, 314, 318, 322, 326, 330,
           333, 337, 340, 343, 347, 350, 353, 356, 358, 361, 364, 366, 369,
           371, 374, 376, 378, 381, 383, 385, 387, 389, 391, 393, 395, 397,
           399, 401, 403, 404, 406, 408, 409, 411, 413, 414, 416>>

(* np.log of a value given in tenths (0.1, or an integer 1..64); the log   *)
(* of 0 is -inf and of a negative number nan, with a warning and no raise. *)
NpLog(t) ==
    IF t <= 0 THEN NaN
    ELSE IF t < 10 THEN Num(0 - LnTab[10])
    ELSE Num(LnTab[t \div 10])

(* np.maximum(a, floor), both in tenths *)
NpMaximum(a, floor) == IF a > floor THEN a ELSE floor

(* e as a mantissa *)
EFix == 27183

RECURSIVE Taylor(_, _, _)
Taylor(term, f, j) ==
    IF term = 0 THEN 0
    ELSE term + Taylor((term * f) \div (Prec * j), f, j + 1)

(* np.exp of z, z in units of 1/(LnScale*Prec): e^k * m/Prec with          *)
(* Prec <= m < EFix                                                        *)
NpExp(z) ==
    IF z.nan THEN [nan |-> TRUE, k |-> 0, m |-> 0]
    ELSE LET unit == LnScale * Prec
             k == z.v \div unit
             f == (z.v % unit) \div LnScale
             m == Taylor(Prec, f, 1)
         IN IF m >= EFix THEN [nan |-> FALSE, k |-> k + 1, m |-> Prec]
            ELSE [nan |-> FALSE, k |-> k, m |-> m]

(* product of two exponentials *)
EMul(p, q) ==
    IF p.nan \/ q.nan THEN [nan |-> TRUE, k |-> 0, m |-> 0]
    ELSE LET m == (p.m * q.m) \div Prec
             k == p.k + q.k
         IN IF m >= EFix THEN [nan |-> FALSE, k |-> k + 1, m |-> (m * Prec) \div EFix]
            ELSE [nan |-> FALSE, k |-> k, m |-> m]

(* a * x + b on tagged floats, x an integer *)
AxPlusB(a, x, b) == IF a.nan \/ b.nan THEN NaN ELSE Num(a.v * x + b.v)

Scale(a, x) == IF a.nan THEN NaN ELSE Num(a.v * x)

Clamp(r) == IF r > Prec THEN Prec ELSE IF r < 0 - Prec THEN 0 - Prec ELSE r

(* ssxym / sqrt(ssxm * ssym) in units of 1/Prec.  The square root is taken *)
(* of the product scaled by the largest F*F that keeps it in the machine   *)
(* word, so a product that is a perfect square has an exact root.          *)
Ratio(SXY, SXX, SYY) ==
    IF SXX <= IntMax \div SYY
    THEN LET D == SXX * SYY
             F == ISqrt(IntMax \div D)
         IN (SXY * F * Prec) \div ISqrt(D * F * F)
    ELSE (SXY * Prec) \div SqrtProd(SXX, SYY)

(* scipy.stats.linregress(x, y) (scipy >= 1.10, setup.py): slope,          *)
(* intercept and r_value.  raised: ValueError (empty input, or all x       *)
(* identical with len > 1).  r is 0 when either variance is 0; a single    *)
(* point gives slope = 0/0 = nan without raising; non-finite input gives   *)
(* nan throughout.                                                         *)
Linregress(xs, ys) ==
    LET n == Len(xs)
        x == Raw(xs)
        y == Raw(ys)
        Sx == Sum(x)
        Sy == Sum(y)
        SXX == n * Dot(x, x) - Sx * Sx
        SXY == n * Dot(x, y) - Sx * Sy
        SYY == n * Dot(y, y) - Sy * Sy
        r == IF SXX = 0 \/ SYY = 0 THEN 0 ELSE Clamp(Ratio(SXY, SXX, SYY))
        slope == (SXY * Prec) \div SXX
        intercept == (Sy * Prec - slope * Sx) \div n
    IN IF n = 0 \/ (n > 1 /\ AllFinite(xs) /\ SXX = 0)
       THEN [raised |-> TRUE, slope |-> NaN, intercept |-> NaN, r |-> NaN]
       ELSE IF ~(AllFinite(xs) /\ AllFinite(ys))
       THEN [raised |-> FALSE, slope |-> NaN, intercept |-> NaN, r |-> NaN]
       ELSE IF SXX = 0
       THEN [raised |-> FALSE, slope |-> NaN, intercept |-> NaN, r |-> Num(0)]
       ELSE [raised |-> FALSE, slope |-> Num(slope),
             intercept |-> Num(intercept), r |-> Num(r)]

Square_Identity(r) == r

(* r_value ** 2 *)
Square(r) == IF r.nan THEN NaN ELSE Num((r.v * r.v) \div Prec)

(* np.std (population) of integers in units u, result in units u*k *)
NpStd(s, k) ==
    LET m == Len(s)
        S1 == Sum(s)
    IN ISqrt(k * k * (m * Dot(s, s) - S1 * S1)) \div m

(* np.mean of integers in units u, result in units u*k *)
NpMean(s, k) == (k * Sum(s)) \div Len(s)

----------------------------------------------------------------------------
(* calculate_seasonality_by_country *)

None == [kind |-> "None"]

(* for item in values: items with a truthy 'values' list and a date that   *)
(* strptime parses are accepted; an item without 'date' raises KeyError    *)
KeyErrorInLoop(items) == \E i \in 1..Len(items) : items[i].kind = "nodate"

IsAccepted(item) == item.kind = "ok"

Accepted(items) == SelectSeq(items, IsAccepted)

Vals(items) == [i \in 1..Len(Accepted(items)) |-> Accepted(items)[i].value]

Dates(items) == [i \in 1..Len(Accepted(items)) |-> Accepted(items)[i].date]

(* month names in order of first appearance (keys of monthly_values) *)
RECURSIVE Months(_)
Months(dates) ==
    IF dates = <<>> THEN <<>>
    ELSE LET rest == Months(SubSeq(dates, 1, Len(dates) - 1))
             d == dates[Len(dates)]
         IN IF \E i \in 1..Len(rest) : rest[i] = d THEN rest ELSE Append(rest, d)

MonthlyValues(vals, dates, month) ==
    LET idx == SelectSeq([i \in 1..Len(vals) |-> i], LAMBDA i : dates[i] = month)
    IN [j \in 1..Len(idx) |-> vals[idx[j]]]

(* x_vals = np.arange(len(vals)) *)
XVals(vals) == [i \in 1..Len(vals) |-> i - 1]

YPositive_NoFloor(vals) == [i \in 1..Len(vals) |-> NpMaximum(10 * vals[i], 0)]

(* y_positive = np.maximum(y_vals, 0.1), in tenths *)
YPositive(vals) == [i \in 1..Len(vals) |-> NpMaximum(10 * vals[i], 1)]

(* x_positive = np.maximum(x_vals + 1, 1), in tenths *)
XPositive(vals) == [i \in 1..Len(vals) |-> NpMaximum(10 * (XVals(vals)[i] + 1), 10)]

NpLogSeq(s) == [i \in 1..Len(s) |-> NpLog(s[i])]

(* for i in range(1, len(y_positive)): the log-returns; math.log raises    *)
(* ValueError on a non-positive argument                                   *)
RECURSIVE LogReturns(_, _)
LogReturns(yp, i) ==
    IF i > Len(yp) THEN [raised |-> FALSE, rets |-> <<>>, pairs |-> <<>>]
    ELSE LET rest == LogReturns(yp, i + 1)
         IN IF yp[i - 1] > 0
            THEN [raised |-> rest.raised \/ yp[i] <= 0,
                  rets |-> <<NpLog(yp[i]).v - NpLog(yp[i - 1]).v>> \o rest.rets,
                  pairs |-> <<<<yp[i], yp[i - 1]>>>> \o rest.pairs]
            ELSE rest

Volatility_OfOneReturn(log_returns) ==
    IF Len(log_returns) > 1 THEN NpStd(log_returns, VolScale \div LnScale) ELSE 1

(* volatility = np.std(log_returns) if log_returns else 0 *)
Volatility(log_returns) ==
    IF log_returns # <<>> THEN NpStd(log_returns, VolScale \div LnScale) ELSE 0

(* mean_log_return = np.mean(log_returns) if log_returns else 0 *)
MeanLogReturn(log_returns) ==
    IF log_returns # <<>> THEN NpMean(log_returns, VolScale \div LnScale) ELSE 0

Horizon == 3

HighVolatility == 500
MediumVolatility == 200

RiskLevel_Inclusive(volatility) ==
    IF volatility >= HighVolatility THEN "High"
    ELSE IF volatility >= MediumVolatility THEN "Medium"
    ELSE "Low"

RiskLevel_Inverted(volatility) ==
    IF volatility > HighVolatility THEN "Low"
    ELSE IF volatility > MediumVolatility THEN "Medium"
    ELSE "High"

(* 'High' if volatility > 0.5 else 'Medium' if volatility > 0.2 else 'Low' *)
RiskLevel(volatility) ==
    IF volatility > HighVolatility THEN "High"
    ELSE IF volatility > MediumVolatility THEN "Medium"
    ELSE "Low"

(* How a call ends: it returns a value, or an exception propagates *)
Returns(value) == [exit |-> "returned", value |-> value, exception |-> "none"]

Raises(e) == [exit |-> "raised", value |-> None, exception |-> e]

(* if not timeline_data or 'interest_over_time' not in timeline_data *)
GuardReturn == Returns(None)

NoObservations_Raises == Raises("InsufficientDataError")

(* if not vals: return None *)
NoObservations == Returns(None)

(* except Exception as e: print(...); return None *)
ExceptHandler == Returns(None)

Ge(a, b) == ~a.nan /\ ~b.nan /\ a.v >= b.v

SelectBest_SkipsLogarithmic(r_squared_linear, r_squared_exp, r_squared_log) ==
    IF Gt(r_squared_exp, r_squared_linear)
    THEN [best_model |-> "exponential", best_r_squared |-> r_squared_exp]
    ELSE [best_model |-> "linear", best_r_squared |-> r_squared_linear]

SelectBest_ReplacesOnTie(r_squared_linear, r_squared_exp, r_squared_log) ==
    LET b1 == [best_model |-> "linear", best_r_squared |-> r_squared_linear]
        b2 == IF Ge(r_squared_exp, b1.best_r_squared)
              THEN [best_model |-> "exponential", best_r_squared |-> r_squared_exp]
              ELSE b1
        b3 == IF Ge(r_squared_log, b2.best_r_squared)
              THEN [best_model |-> "logarithmic", best_r_squared |-> r_squared_log]
              ELSE b2
    IN b3

(* 5. SELECCIONAR MEJOR TENDENCIA *)
SelectBest(r_squared_linear, r_squared_exp, r_squared_log) ==
    LET b1 == [best_model |-> "linear", best_r_squared |-> r_squared_linear]
        b2 == IF Gt(r_squared_exp, b1.best_r_squared)
              THEN [best_model |-> "exponential", best_r_squared |-> r_squared_exp]
              ELSE b1
        b3 == IF Gt(r_squared_log, b2.best_r_squared)
              THEN [best_model |-> "logarithmic", best_r_squared |-> r_squared_log]
              ELSE b2
    IN b3

FutureX_TwoAhead(vals) == [k \in 1..(Horizon - 1) |-> Len(vals) + k - 1]

(* future_x = np.arange(len(vals), len(vals) + 3) *)
FutureX(vals) == [k \in 1..Horizon |-> Len(vals) + k - 1]

Predict_LogOfIndex(best_model, lin, exp, log, future_x) ==
    IF best_model = "linear"
    THEN [k \in 1..Len(future_x) |-> AxPlusB(lin.slope, future_x[k], lin.intercept)]
    ELSE IF best_model = "exponential"
    THEN [k \in 1..Len(future_x) |->
             EMul(NpExp(exp.intercept), NpExp(Scale(exp.slope, future_x[k])))]
    ELSE [k \in 1..Len(future_x) |->
             AxPlusB(log.slope, NpLog(10 * future_x[k]).v, log.intercept)]

(* 6. PREDICCION *)
Predict(best_model, lin, exp, log, future_x) ==
    IF best_model = "linear"
    THEN [k \in 1..Len(future_x) |-> AxPlusB(lin.slope, future_x[k], lin.intercept)]
    ELSE IF best_model = "exponential"
    THEN [k \in 1..Len(future_x) |->
             EMul(NpExp(exp.intercept), NpExp(Scale(exp.slope, future_x[k])))]
    ELSE [k \in 1..Len(future_x) |->
             AxPlusB(log.slope, NpLog(10 * (future_x[k] + 1)).v, log.intercept)]

(* 8. SCORE DE ESTACIONALIDAD, in units of 1/AvgScale *)
SeasonalityScore(monthly, overall_avg) ==
    IF overall_avg > 0
    THEN LET std_dev == NpStd(monthly, 1)
             score == (std_dev * 100 * AvgScale) \div overall_avg
         IN IF score < 100 * AvgScale THEN score ELSE 100 * AvgScale
    ELSE 0

FitLinear_OneBased(vals) ==
    Linregress(NumSeq([i \in 1..Len(vals) |-> i]), NumSeq(vals))

(* 1. TENDENCIA LINEAR: linregress(x_vals, y_vals) *)
FitLinear(vals) == Linregress(NumSeq(XVals(vals)), NumSeq(vals))

(* slope_linear * x + intercept_linear *)
LinearAt(fit, x) == AxPlusB(fit.slope, x, fit.intercept)

(* 2. TENDENCIA EXPONENCIAL: linregress(x_vals, log_y) *)
FitExponential(vals) == Linregress(NumSeq(XVals(vals)), NpLogSeq(YPositive(vals)))

(* a_exp * np.exp(b_exp * x) with a_exp = np.exp(intercept_exp) *)
ExponentialAt(fit, x) == EMul(NpExp(fit.intercept), NpExp(Scale(fit.slope, x)))

(* 3. TENDENCIA LOGARITMICA: linregress(log_x, y_vals) *)
FitLogarithmic(vals) == Linregress(NpLogSeq(XPositive(vals)), NumSeq(vals))

(* slope_log * log_x + intercept_log, log_x a logarithm *)
LogarithmicAt(fit, log_x) ==
    IF log_x.nan THEN NaN ELSE AxPlusB(fit.slope, log_x.v, fit.intercept)

TrendLinear_DropsLast(lin, x_vals) ==
    [i \in 1..(Len(x_vals) - 1) |-> LinearAt(lin, x_vals[i])]

(* trend_linear = slope_linear * x_vals + intercept_linear *)
TrendLinear(lin, x_vals) == [i \in 1..Len(x_vals) |-> LinearAt(lin, x_vals[i])]

(* lines 57-180: the analysis of a non-empty list of accepted values *)
Analyse(vals, dates, country) ==
    LET x_vals == XVals(vals)
        (* 1. linear *)
        lin == FitLinear(vals)
        trend_linear == TrendLinear(lin, x_vals)
        r_squared_linear == Square(lin.r)
        (* 2. exponential *)
        y_positive == YPositive(vals)
        exp == FitExponential(vals)
        trend_exponential == [i \in 1..Len(vals) |-> ExponentialAt(exp, x_vals[i])]
        r_squared_exp == Square(exp.r)
        (* 3. logarithmic *)
        log_x == NpLogSeq(XPositive(vals))
        log == FitLogarithmic(vals)
        trend_logarithmic == [i \in 1..Len(vals) |-> LogarithmicAt(log, log_x[i])]
        r_squared_log == Square(log.r)
        (* 4. volatility *)
        lr == LogReturns(y_positive, 2)
        log_returns == lr.rets
        volatility == Volatility(log_returns)
        mean_log_return == MeanLogReturn(log_returns)
        (* 5. best model *)
        best == SelectBest(r_squared_linear, r_squared_exp, r_squared_log)
        (* 6. forecast *)
        predictions == Predict(best.best_model, lin, exp, log, FutureX(vals))
        (* 7. monthly averages *)
        months == Months(dates)
        monthly_avg == [j \in 1..Len(months) |->
                           [month |-> months[j],
                            avg |-> NpMean(MonthlyValues(vals, dates, months[j]), AvgScale)]]
        overall_avg == NpMean(vals, AvgScale)
        (* 8. seasonality score *)
        seasonality_score ==
            SeasonalityScore([j \in 1..Len(months) |-> monthly_avg[j].avg], overall_avg)
    IN IF lin.raised \/ exp.raised \/ log.raised \/ lr.raised
       THEN ExceptHandler
       ELSE Returns(
            [kind |-> "dict",
             country |-> country,
             monthly_avg |-> monthly_avg,
             overall_avg |-> overall_avg,
             seasonality_score |-> seasonality_score,
             trends |->
                 [linear |-> [values |-> trend_linear,
                              r_squared |-> r_squared_linear,
                              slope |-> lin.slope],
                  exponential |-> [values |-> trend_exponential,
                                   r_squared |-> r_squared_exp],
                  logarithmic |-> [values |-> trend_logarithmic,
                                   r_squared |-> r_squared_log],
                  best_model |-> best.best_model,
                  best_r_squared |-> best.best_r_squared],
             log_analysis |->
                 [volatility |-> volatility,
                  mean_log_return |-> mean_log_return,
                  risk_level |-> RiskLevel(volatility)],
             predictions |->
                 [next_3_months |-> predictions,
                  confidence |-> best.best_r_squared],
             raw_data |-> [dates |-> dates, values |-> vals]])

(* the values handed to np.log / math.log while analysing vals (tenths) *)
LogArgs(vals) ==
    [log_y |-> YPositive(vals),
     log_x |-> XPositive(vals),
     returns |-> LogReturns(YPositive(vals), 2).pairs,
     future |-> [k \in 1..Len(FutureX(vals)) |-> 10 * (FutureX(vals)[k] + 1)]]

NoLogArgs == [log_y |-> <<>>, log_x |-> <<>>, returns |-> <<>>, future |-> <<>>]

(* the whole function: guard (24-25), try body, except (182-184).         *)
(* Shapes of timeline_data: "none" is None or an empty dict, "no_interest" *)
(* a dict without 'interest_over_time', "scalar" a truthy number (the 'in' *)
(* test raises TypeError outside the try), "no_timeline" a dict whose      *)
(* 'interest_over_time' has no 'timeline_data' (KeyError inside the try).  *)
CalculateSeasonalityByCountry(td, country) ==
    IF td.shape = "scalar" THEN Raises("TypeError")
    ELSE IF td.shape = "none" \/ td.shape = "no_interest" THEN GuardReturn
    ELSE IF td.shape = "no_timeline" \/ KeyErrorInLoop(td.items) THEN ExceptHandler
    ELSE IF Vals(td.items) = <<>> THEN NoObservations
    ELSE Analyse(Vals(td.items), Dates(td.items), country)

----------------------------------------------------------------------------
(* Inputs *)

PerMonth == 2

DateAt(i) == (((i - 1) \div PerMonth) % 12) + 1

ItemOf(c, i) ==
    IF c <= MaxVal THEN [kind |-> "ok", value |-> c, date |-> DateAt(i)]
    ELSE IF c = MaxVal + 1 THEN [kind |-> "novalues", value |-> 0, date |-> DateAt(i)]
    ELSE IF c = MaxVal + 2 THEN [kind |-> "baddate", value |-> 0, date |-> DateAt(i)]
    ELSE [kind |-> "nodate", value |-> 0, date |-> 0]

TimelineOf(c) == [shape |-> "ok", items |-> [i \in 1..Len(c) |-> ItemOf(c[i], i)]]

(* Named series: the end-to-end scenario, the zero-floor example, and two  *)
(* series whose volatility, in the fixed point of the model, is exactly    *)
(* 0.5 and exactly 0.2                                                     *)
EndToEnd == [i \in 1..12 |-> 10 + 2 * (i - 1)]

ZeroFloorExample == <<0, 5, 0, 10>>

VolatilityHalf == <<2, 9, 15>>

VolatilityFifth == <<1, 4, 24>>

NamedSeries == {EndToEnd, ZeroFloorExample, VolatilityHalf, VolatilityFifth}

TimelineOfValues(v) ==
    [shape |-> "ok",
     items |-> [i \in 1..Len(v) |-> [kind |-> "ok", value |-> v[i], date |-> DateAt(i)]]]

Timelines ==
    {TimelineOf(c) : c \in UNION {[1..n -> 0..(MaxVal + 3)] : n \in 0..MaxLen}}
    \cup {TimelineOfValues(v) : v \in NamedSeries}
    \cup {[shape |-> s, items |-> <<>>] :
               s \in {"none", "no_interest", "no_timeline", "scalar"}}

Countries == {"ES"}

NoTimeline == [shape |-> "none", items |-> <<>>]

----------------------------------------------------------------------------
(* The state machine: the caller invokes the function and takes the result *)

NoCall == [op |-> "none"]

Init ==
    /\ cache = <<>>
    /\ request_count = 0
    /\ now = 0
    /\ http_requests = 0
    /\ last = NoCall
    /\ stored_by = <<>>
    /\ history_file = [kind |-> "absent", records |-> <<>>]
    /\ save_calls = <<>>
    /\ pc = "idle"
    /\ timeline_data = NoTimeline
    /\ country_code = "ES"
    /\ result = None
    /\ exception = "none"
    /\ log_args = NoLogArgs

(* advanced = calculate_seasonality_by_country(data['timeline'], geo) *)
Call(td, country) ==
    LET out == CalculateSeasonalityByCountry(td, country)
    IN /\ pc = "idle"
       /\ timeline_data' = td
       /\ country_code' = country
       /\ result' = out.value
       /\ exception' = out.exception
       /\ log_args' = IF out.value.kind = "dict"
                      THEN LogArgs(Vals(td.items)) ELSE NoLogArgs
       /\ pc' = out.exit
       /\ UNCHANGED <<client_vars, history_vars>>

(* the caller takes the result (or the exception) and the frame is gone *)
Return ==
    /\ pc \in {"returned", "raised"}
    /\ pc' = "idle"
    /\ timeline_data' = NoTimeline
    /\ country_code' = "ES"
    /\ result' = None
    /\ exception' = "none"
    /\ log_args' = NoLogArgs
    /\ UNCHANGED <<client_vars, history_vars>>

Next ==
    \/ \E td \in Timelines, c \in Countries : Call(td, c)
    \/ Return

Spec == Init /\ [][Next]_vars

----------------------------------------------------------------------------
(* Properties *)

HasResult == pc = "returned" /\ result.kind = "dict"

RMax(t) ==
    LET l == t.linear.r_squared.v
        e == t.exponential.r_squared.v
        g == t.logarithmic.r_squared.v
    IN IF l >= e /\ l >= g THEN l ELSE IF e >= g THEN e ELSE g

(* C1: whenever a result is returned, trends.best_r_squared is the maximum *)
(* of the three r_squared values and trends.best_model names a model whose *)
(* own r_squared is that maximum.                                          *)
C1_BestIsMaximum ==
    HasResult =>
        LET t == result.trends
        IN /\ ~t.best_r_squared.nan
           /\ t.best_r_squared.v = RMax(t)
           /\ t[t.best_model].r_squared = t.best_r_squared

C1_Witness ==
    /\ HasResult
    /\ result.trends.best_model = "logarithmic"
    /\ result.trends.logarithmic.r_squared.v > result.trends.exponential.r_squared.v
    /\ result.trends.exponential.r_squared.v > result.trends.linear.r_squared.v

(* C2: when several models share the highest r_squared the selected model  *)
(* is the earliest of them in the order linear, exponential, logarithmic;  *)
(* a two-observation series, which linear and exponential fit equally      *)
(* well, selects linear.                                                   *)
C2_EarliestWinsTies ==
    HasResult =>
        LET t == result.trends
            m == RMax(t)
        IN /\ t.linear.r_squared.v = m => t.best_model = "linear"
           /\ (t.linear.r_squared.v < m /\ t.exponential.r_squared.v = m)
                 => t.best_model = "exponential"
           /\ (t.linear.r_squared.v < m /\ t.exponential.r_squared.v < m)
                 => t.best_model = "logarithmic"
           /\ Len(result.raw_data.values) = 2
                 => /\ t.linear.r_squared = t.exponential.r_squared
                    /\ t.best_model = "linear"

C2_Witness ==
    /\ HasResult
    /\ Len(result.raw_data.values) = 2
    /\ result.trends.linear.r_squared.v = Prec
    /\ result.trends.exponential.r_squared.v = Prec
    /\ result.trends.best_model = "linear"

(* a timeline of the expected shape that yields no usable observation *)
EmptySeries(td) == td.shape = "ok" /\ Vals(td.items) = <<>>

(* C3 as stated: analysing an empty series fails with an                   *)
(* InsufficientDataError that propagates to the caller.                    *)
C3_EmptyRaisesInsufficientData ==
    (pc # "idle" /\ EmptySeries(timeline_data))
        => (pc = "raised" /\ exception = "InsufficientDataError")

(* C3 amended: analysing an empty series returns None to the caller; no    *)
(* exception propagates.                                                   *)
C3_EmptyReturnsNone ==
    (pc # "idle" /\ EmptySeries(timeline_data))
        => (pc = "returned" /\ result.kind = "None" /\ exception = "none")

C3_Witness ==
    /\ pc = "returned"
    /\ EmptySeries(timeline_data)
    /\ Len(timeline_data.items) > 0
    /\ ~KeyErrorInLoop(timeline_data.items)
    /\ result.kind = "None"

(* C4: every returned result holds exactly 3 forecast values, for every    *)
(* input length and whichever model was selected.                          *)
C4_ForecastLength ==
    HasResult => Len(result.predictions.next_3_months) = 3

C4_Witness ==
    /\ HasResult
    /\ result.trends.best_model = "exponential"
    /\ Len(result.raw_data.values) >= 3
    /\ Len(result.predictions.next_3_months) = 3

(* the selected model's fitted formula at index x, with the index          *)
(* transform of its fit                                                    *)
FittedFormulaAt(model, vals, x) ==
    IF model = "linear" THEN LinearAt(FitLinear(vals), x)
    ELSE IF model = "exponential" THEN ExponentialAt(FitExponential(vals), x)
    ELSE LogarithmicAt(FitLogarithmic(vals), NpLog(NpMaximum(10 * (x + 1), 10)))

(* C5: the forecast is the selected model's own fitted formula evaluated   *)
(* at the future indices n, n+1, n+2 with the functional form and index    *)
(* transform of its fit, and predictions.confidence is the selected        *)
(* model's r_squared.                                                      *)
C5_ForecastIsSelectedFormula ==
    HasResult =>
        LET vals == result.raw_data.values
            n == Len(vals)
            t == result.trends
            p == result.predictions
        IN /\ Len(p.next_3_months) = 3
           /\ \A k \in 1..3 :
                 p.next_3_months[k] = FittedFormulaAt(t.best_model, vals, n + k - 1)
           /\ \A i \in 1..n :
                 t[t.best_model].values[i] = FittedFormulaAt(t.best_model, vals, i - 1)
           /\ p.confidence = t.best_r_squared
           /\ p.confidence = t[t.best_model].r_squared

C5_Witness ==
    /\ HasResult
    /\ result.trends.best_model = "logarithmic"
    /\ ~result.predictions.next_3_months[1].nan
    /\ result.predictions.next_3_months[1] # result.predictions.next_3_months[3]

(* C6: risk_level is 'High' exactly when volatility > 0.5, 'Medium'        *)
(* exactly when 0.2 < volatility <= 0.5 and 'Low' otherwise; volatility    *)
(* exactly 0.5 is Medium and exactly 0.2 is Low.                           *)
C6_RiskLevelThresholds ==
    HasResult =>
        LET v == result.log_analysis.volatility
            r == result.log_analysis.risk_level
        IN /\ r \in {"High", "Medium", "Low"}
           /\ r = "High" <=> 2 * v > VolScale
           /\ r = "Medium" <=> (5 * v > VolScale /\ 2 * v <= VolScale)
           /\ r = "Low" <=> 5 * v <= VolScale

C6_Witness ==
    /\ HasResult
    /\ 2 * result.log_analysis.volatility = VolScale
    /\ result.log_analysis.risk_level = "Medium"

(* the floored value max(value, 0.1), in tenths *)
Floored(v) == IF v = 0 THEN 1 ELSE 10 * v

ContainsZero(td) ==
    /\ td.shape = "ok"
    /\ ~KeyErrorInLoop(td.items)
    /\ \E i \in 1..Len(td.items) : td.items[i].kind = "ok" /\ td.items[i].value = 0

(* C7: for a series of non-negative values that contains zeros the         *)
(* analysis returns a result without failing, and every value passed to a  *)
(* logarithm or used as numerator or denominator of a log-return is the    *)
(* floored value max(value, 0.1), hence strictly positive.                 *)
C7_ZeroFloorSafety ==
    (pc # "idle" /\ ContainsZero(timeline_data)) =>
        LET vals == Vals(timeline_data.items)
            n == Len(vals)
        IN /\ HasResult
           /\ Len(log_args.log_y) = n
           /\ \A i \in 1..n : log_args.log_y[i] = Floored(vals[i]) /\ log_args.log_y[i] > 0
           /\ Len(log_args.returns) = n - 1
           /\ \A i \in 1..(n - 1) :
                 /\ log_args.returns[i] = <<Floored(vals[i + 1]), Floored(vals[i])>>
                 /\ log_args.returns[i][1] > 0
                 /\ log_args.returns[i][2] > 0
           /\ \A i \in 1..Len(log_args.log_x) : log_args.log_x[i] > 0
           /\ \A i \in 1..Len(log_args.future) : log_args.future[i] > 0
           /\ ~result.trends.exponential.r_squared.nan

C7_Witness ==
    /\ HasResult
    /\ timeline_data = TimelineOfValues(ZeroFloorExample)
    /\ log_args.log_y = <<1, 50, 1, 100>>

(* a series value[i] = a*i + b with a # 0 and at least two observations *)
ExactlyLinear(vals) ==
    /\ Len(vals) >= 2
    /\ vals[2] # vals[1]
    /\ \A i \in 1..Len(vals) : vals[i] = vals[1] + (i - 1) * (vals[2] - vals[1])

(* C9: for an exactly linear series (such as [10, 12, ..., 32]) the linear *)
(* model has r_squared 1, linear is the selected model and the 3-step      *)
(* forecast continues the line (34, 36, 38 for the example).               *)
C9_LinearSeries ==
    /\ (pc # "idle" /\ timeline_data.shape = "ok"
          /\ ~KeyErrorInLoop(timeline_data.items)
          /\ ExactlyLinear(Vals(timeline_data.items))) =>
            LET vals == Vals(timeline_data.items)
                n == Len(vals)
                a == vals[2] - vals[1]
            IN /\ HasResult
               /\ result.trends.linear.r_squared = Num(Prec)
               /\ result.trends.best_model = "linear"
               /\ result.trends.best_r_squared = Num(Prec)
               /\ result.predictions.next_3_months =
                      [k \in 1..3 |-> Num(Prec * (vals[1] + (n + k - 1) * a))]
    /\ (pc # "idle" /\ timeline_data = TimelineOfValues(EndToEnd)) =>
            result.predictions.next_3_months =
                <<Num(34 * Prec), Num(36 * Prec), Num(38 * Prec)>>

C9_Witness ==
    /\ HasResult
    /\ timeline_data = TimelineOfValues(EndToEnd)
    /\ result.trends.best_model = "linear"
    /\ result.predictions.next_3_months[1] = Num(34 * Prec)

AllEqual(vals) ==
    /\ Len(vals) >= 2
    /\ \A i \in 1..Len(vals) : vals[i] = vals[1]

(* C10: for an all-equal series of at least two observations, the all-zero *)
(* series included, the analysis returns a result, every model's r_squared *)
(* is 0, and the selected model is linear with a flat-line fit.            *)
C10_ZeroVariance ==
    (pc # "idle" /\ timeline_data.shape = "ok"
        /\ ~KeyErrorInLoop(timeline_data.items)
        /\ AllEqual(Vals(timeline_data.items))) =>
            LET vals == Vals(timeline_data.items)
                t == result.trends
            IN /\ HasResult
               /\ t.linear.r_squared = Num(0)
               /\ t.exponential.r_squared = Num(0)
               /\ t.logarithmic.r_squared = Num(0)
               /\ t.best_model = "linear"
               /\ t.best_r_squared = Num(0)
               /\ t.linear.slope = Num(0)
               /\ \A i \in 1..Len(vals) : t.linear.values[i] = Num(Prec * vals[1])

C10_Witness ==
    /\ HasResult
    /\ Len(result.raw_data.values) >= 3
    /\ AllEqual(result.raw_data.values)
    /\ result.raw_data.values[1] = 0
    /\ result.trends.best_model = "linear"

FewerThanTwo(td) ==
    td.shape = "ok" /\ ~KeyErrorInLoop(td.items) /\ Len(Vals(td.items)) < 2

ZeroLogAnalysis ==
    /\ HasResult
    /\ result.log_analysis.volatility = 0
    /\ result.log_analysis.mean_log_return = 0

(* C11 as stated: every series with fewer than 2 observations, the empty   *)
(* one included, yields a result with volatility 0 and mean_log_return 0.  *)
C11_FewerThanTwoYieldsZero ==
    (pc # "idle" /\ FewerThanTwo(timeline_data)) => ZeroLogAnalysis

(* C11: a series with exactly one observation (so no log-return exists)    *)
(* yields a result with volatility 0 and mean_log_return 0 and no error;   *)
(* a series with no observation yields no result at all (None).            *)
C11_SingleObservationYieldsZero ==
    (pc # "idle" /\ FewerThanTwo(timeline_data)) =>
        /\ pc = "returned"
        /\ Len(Vals(timeline_data.items)) = 1 => ZeroLogAnalysis
        /\ Len(Vals(timeline_data.items)) = 0 => result = None

C11_Witness ==
    /\ ZeroLogAnalysis
    /\ Len(result.raw_data.values) = 1
    /\ log_args.returns = <<>>
    /\ Len(timeline_data.items) > 1

IdenticalNonZero(vals) ==
    /\ Len(vals) >= 1
    /\ vals[1] # 0
    /\ \A i \in 1..Len(vals) : vals[i] = vals[1]

(* C12: a series of identical non-zero values yields a result whose        *)
(* volatility is 0 and whose risk_level is 'Low'.                          *)
C12_ConstantSeriesLowRisk ==
    (pc # "idle" /\ timeline_data.shape = "ok"
        /\ ~KeyErrorInLoop(timeline_data.items)
        /\ IdenticalNonZero(Vals(timeline_data.items))) =>
            /\ HasResult
            /\ result.log_analysis.volatility = 0
            /\ result.log_analysis.risk_level = "Low"

C12_Witness ==
    /\ HasResult
    /\ Len(result.raw_data.values) >= 3
    /\ IdenticalNonZero(result.raw_data.values)
    /\ Len(log_args.returns) >= 2
    /\ result.log_analysis.volatility = 0
    /\ result.log_analysis.risk_level = "Low"

UnitInterval(r) == ~r.nan /\ 0 <= r.v /\ r.v <= Prec

(* C13: in every returned result the r_squared of the linear, exponential  *)
(* and logarithmic model, best_r_squared and the forecast confidence are   *)
(* numbers in [0, 1]; none is ever negative.                               *)
C13_RSquaredInUnitInterval ==
    HasResult =>
        /\ UnitInterval(result.trends.linear.r_squared)
        /\ UnitInterval(result.trends.exponential.r_squared)
        /\ UnitInterval(result.trends.logarithmic.r_squared)
        /\ UnitInterval(result.trends.best_r_squared)
        /\ UnitInterval(result.predictions.confidence)

C13_Witness ==
    /\ HasResult
    /\ Gt(Num(0), result.trends.linear.slope)
    /\ Gt(result.trends.linear.r_squared, Num(0))
    /\ Gt(Num(Prec), result.trends.best_r_squared)
    /\ Gt(result.trends.best_r_squared, Num(0))

(* C14: in every returned result the fitted value lists of the linear,     *)
(* exponential and logarithmic models have one value per accepted          *)
(* observation: their lengths equal those of raw_data.values and           *)
(* raw_data.dates.                                                         *)
C14_FittedValuesPerObservation ==
    HasResult =>
        LET n == Len(result.raw_data.values)
        IN /\ n = Len(Vals(timeline_data.items))
           /\ Len(result.raw_data.dates) = n
           /\ Len(result.trends.linear.values) = n
           /\ Len(result.trends.exponential.values) = n
           /\ Len(result.trends.logarithmic.values) = n

C14_Witness ==
    /\ HasResult
    /\ Len(result.raw_data.values) >= 2
    /\ Len(timeline_data.items) > Len(result.raw_data.values)
    /\ Len(result.trends.linear.values) = Len(result.raw_data.dates)

----------------------------------------------------------------------------
(* abra/analysis/serpapi/client.py: SerpAPIClient                          *)
(*                                                                         *)
(* A Python str is a sequence of one-character strings, so that the        *)
(* f-strings and the "_".join of _get_cache_key are concatenations and     *)
(* sorted() is the lexicographic order of the code points.                 *)

(* the characters in use, in code point order *)
Chars ==
    <<" ", "0", "1", "2", "5", "=", "_",
      "a", "b", "c", "d", "e", "f", "g", "h", "i", "j", "k", "l", "m",
      "n", "o", "p", "q", "r", "s", "t", "u", "v", "w", "x", "y", "z">>

(* ord(c), up to the order *)
Ord == [c \in {Chars[i] : i \in 1..Len(Chars)} |->
           CHOOSE i \in 1..Len(Chars) : Chars[i] = c]

(* a < b on str *)
RECURSIVE StrLess(_, _)
StrLess(a, b) ==
    IF b = <<>> THEN FALSE
    ELSE IF a = <<>> THEN TRUE
    ELSE IF Head(a) = Head(b) THEN StrLess(Tail(a), Tail(b))
    ELSE Ord[Head(a)] < Ord[Head(b)]

(* sorted(params.items()): the parameter names in ascending order (the     *)
(* names of a dict are distinct, so the values are never compared)         *)
RECURSIVE Insert(_, _)
Insert(x, sorted) ==
    IF sorted = <<>> THEN <<x>>
    ELSE IF StrLess(x, Head(sorted)) THEN <<x>> \o sorted
    ELSE <<Head(sorted)>> \o Insert(x, Tail(sorted))

RECURSIVE SortedNames(_)
SortedNames(names) ==
    IF names = {} THEN <<>>
    ELSE LET x == CHOOSE n \in names : TRUE
         IN Insert(x, SortedNames(names \ {x}))

(* sep.join(parts) *)
RECURSIVE Join(_, _)
Join(sep, parts) ==
    IF parts = <<>> THEN <<>>
    ELSE IF Len(parts) = 1 THEN parts[1]
    ELSE parts[1] \o sep \o Join(sep, Tail(parts))

GetCacheKey_EngineOnly(engine, params) == engine \o <<"_">>

(* _get_cache_key: f"{engine}_{params_str}" with params_str the "k=v"      *)
(* items joined by "_"                                                     *)
GetCacheKey(engine, params) ==
    LET sorted_params == SortedNames(DOMAIN params)
        params_str == Join(<<"_">>, [i \in 1..Len(sorted_params) |->
                          sorted_params[i] \o <<"=">> \o params[sorted_params[i]]])
    IN engine \o <<"_">> \o params_str

(* timedelta(hours=24), in clock ticks of 12 hours *)
CacheDuration == 2

IsCacheValid_Inclusive(self_cache, cache_key, clock) ==
    /\ cache_key \in DOMAIN self_cache
    /\ clock - self_cache[cache_key].cached_time <= CacheDuration

(* _is_cache_valid *)
IsCacheValid(self_cache, cache_key, clock) ==
    /\ cache_key \in DOMAIN self_cache
    /\ clock - self_cache[cache_key].cached_time < CacheDuration

(* _get_from_cache *)
GetFromCache(self_cache, cache_key, clock) ==
    IF IsCacheValid(self_cache, cache_key, clock)
    THEN self_cache[cache_key].cached_data
    ELSE None

(* _save_to_cache: self.cache[cache_key] = (data, datetime.now()) *)
SaveToCache(self_cache, cache_key, data, clock) ==
    [k \in DOMAIN self_cache \cup {cache_key} |->
        IF k = cache_key THEN [cached_data |-> data, cached_time |-> clock]
        ELSE self_cache[k]]

(* A parsed response body: a JSON object, given by the names it holds;     *)
(* Dict({}) is the empty object                                            *)
Dict(names) == [kind |-> "dict", names |-> names]

(* bool(x) of a search result: None and the empty dict are falsy *)
Truthy(x) == x.kind = "dict" /\ x.names # {}

(* What requests.get, raise_for_status and response.json() come to: a      *)
(* parsed body, a Timeout, an HTTPError, or another exception (a           *)
(* connection error, a body that is not JSON)                              *)
Responses == {Dict({}), Dict({"organic_results"})}

Failures == {"timeout", "http_error", "other_error"}

Http ==
    {[status |-> "ok", data |-> d] : d \in Responses}
    \cup {[status |-> f, data |-> None] : f \in Failures}

Succeeds_IgnoresStatus(http) == http.status \in {"ok", "http_error"}

(* the try block reaches data = response.json() without an exception *)
Succeeds(http) == http.status = "ok"

(* SerpAPIClient.__init__: the state of a new client *)
SerpAPIClient == [cache |-> <<>>, request_count |-> 0, stored_by |-> <<>>]

(* SerpAPIClient.search on the client state self at time clock, http being *)
(* what the network answers if it is asked.  Gives the client state after  *)
(* the call, the value returned, the number of HTTP requests issued and    *)
(* whether the value came from the cache.                                  *)
Search(self, engine, params, use_cache, http, clock) ==
    LET cache_key == GetCacheKey(engine, params)
        cached == IF use_cache THEN GetFromCache(self.cache, cache_key, clock)
                  ELSE None
    IN IF use_cache /\ Truthy(cached)
       THEN [self |-> self, ret |-> cached, issued |-> 0, hit |-> TRUE]
       ELSE IF Succeeds(http)
       THEN [self |->
                [cache |-> IF use_cache
                           THEN SaveToCache(self.cache, cache_key, http.data, clock)
                           ELSE self.cache,
                 request_count |-> self.request_count + 1,
                 stored_by |-> IF use_cache
                               THEN [k \in DOMAIN self.stored_by \cup {cache_key} |->
                                       IF k = cache_key
                                       THEN [engine |-> engine, params |-> params]
                                       ELSE self.stored_by[k]]
                               ELSE self.stored_by],
             ret |-> http.data, issued |-> 1, hit |-> FALSE]
       ELSE [self |-> self, ret |-> None, issued |-> 1, hit |-> FALSE]

(* parameter names and values *)
Q == <<"q">>
Gl == <<"g", "l">>
Hl == <<"h", "l">>
NumName == <<"n", "u", "m">>
Tbm == <<"t", "b", "m">>
Nws == <<"n", "w", "s">>
Shop == <<"s", "h", "o", "p">>
Es == <<"e", "s">>
Fifteen == <<"1", "5">>
Twenty == <<"2", "0">>
Google == <<"g", "o", "o", "g", "l", "e">>
GoogleNews == Google \o <<"_", "n", "e", "w", "s">>
GoogleShopping == Google \o <<"_", "s", "h", "o", "p", "p", "i", "n", "g">>

(* a dict literal with str keys: the pairs <<name, value>> as a function *)
DictOf(pairs) ==
    [k \in {pairs[i][1] : i \in 1..Len(pairs)} |->
        LET i == CHOOSE j \in 1..Len(pairs) : pairs[j][1] = k IN pairs[i][2]]

(* the request (engine and params) each wrapper hands to search *)
BaseRequest(query, country) ==
    [engine |-> Google, params |-> DictOf(<<<<Q, query>>, <<Gl, country>>>>)]

GoogleNewsRequest(query, country) ==
    [engine |-> GoogleNews,
     params |-> DictOf(<<<<Q, query>>, <<Gl, country>>, <<Hl, Es>>, <<NumName, Fifteen>>>>)]

ShoppingResultsRequest(query, country) ==
    [engine |-> GoogleShopping,
     params |-> DictOf(<<<<Q, query>>, <<Gl, country>>, <<NumName, Twenty>>, <<Tbm, Shop>>>>)]

TopStoriesRequest(query, country) ==
    [engine |-> Google,
     params |-> DictOf(<<<<Q, query>>, <<Gl, country>>, <<Tbm, Nws>>>>)]

----------------------------------------------------------------------------
(* One client in use: searches and the passing of time *)

MaxRequests == 2
MaxTime == 2

Nike == <<"n", "i", "k", "e">>

(* the text  nike_tbm=nws  typed as a query *)
NikeTbmNws == Nike \o <<"_">> \o Tbm \o <<"=">> \o Nws

Queries == {Nike, NikeTbmNws}

ClientRequests ==
    UNION {{BaseRequest(q, Es), TopStoriesRequest(q, Es)} : q \in Queries}

(* the cache holds an entry under cache_key whose age is cache_duration    *)
(* or more                                                                 *)
Stale(self_cache, cache_key, clock) ==
    /\ cache_key \in DOMAIN self_cache
    /\ clock - self_cache[cache_key].cached_time >= CacheDuration

(* client.search(engine, params, use_cache) and the wrappers around it *)
ClientSearch(r, use_cache, http) ==
    \E out \in {Search([cache |-> cache, request_count |-> request_count,
                         stored_by |-> stored_by],
                        r.engine, r.params, use_cache, http, now)} :
       /\ http_requests + out.issued <= MaxRequests
       /\ cache' = out.self.cache
       /\ request_count' = out.self.request_count
       /\ stored_by' = out.self.stored_by
       /\ http_requests' = http_requests + out.issued
       /\ last' = [op |-> "search", engine |-> r.engine, params |-> r.params,
                   use_cache |-> use_cache,
                   status |-> IF out.issued = 1 THEN http.status ELSE "cached",
                   ret |-> out.ret, issued |-> out.issued, hit |-> out.hit,
                   stale |-> Stale(cache, GetCacheKey(r.engine, r.params), now)]
       /\ UNCHANGED <<now, modeler_vars, history_vars>>

(* datetime.now() advances by one tick *)
Tick ==
    /\ now < MaxTime
    /\ now' = now + 1
    /\ UNCHANGED <<cache, request_count, http_requests, last, stored_by, modeler_vars, history_vars>>

ClientNext ==
    \/ \E r \in ClientRequests, use_cache \in BOOLEAN, http \in Http :
           ClientSearch(r, use_cache, http)
    \/ Tick

ClientSpec == Init /\ [][ClientNext]_vars

----------------------------------------------------------------------------
(* Properties of the client *)

(* the step is a call of search (a repeated cache hit that changes nothing *)
(* is a stuttering step)                                                   *)
SearchStep ==
    /\ last'.op = "search"
    /\ last' # last \/ http_requests' # http_requests

LastRequest(l) == [engine |-> l.engine, params |-> l.params]

LastKey(l) == GetCacheKey(l.engine, l.params)

(* the cache holds the response of an earlier successful search of this    *)
(* same request with use_cache=True, stored less than cache_duration ago   *)
StoredInWindow(r) ==
    LET k == GetCacheKey(r.engine, r.params)
    IN /\ k \in DOMAIN cache
       /\ stored_by[k] = r
       /\ now - cache[k].cached_time < CacheDuration

(* C15: after a successful search(engine, params) with use_cache=True,     *)
(* every later search of the same engine and params on the same client     *)
(* made less than cache_duration afterwards returns the stored response,   *)
(* issues no HTTP request and leaves request_count alone, whatever the     *)
(* stored response is.                                                     *)
C15_CachedWithinWindow ==
    [][(SearchStep /\ last'.use_cache /\ StoredInWindow(LastRequest(last')))
          => /\ last'.ret = cache[LastKey(last')].cached_data
             /\ http_requests' = http_requests
             /\ request_count' = request_count]_vars

(* C16: requests that differ in engine or in a parameter name or value     *)
(* have different cache keys: no entry stored for another request sits     *)
(* under the key of the request just searched, and a search served from    *)
(* the cache receives the response stored for its own request.             *)
C16_CacheKeyUnique ==
    last.op = "search" =>
        \A k \in DOMAIN stored_by :
            stored_by[k] # LastRequest(last) => k # LastKey(last)

(* C20: when the HTTP request of search times out, gets an HTTP error      *)
(* status or fails in any other way, search returns None and the cache     *)
(* and request_count are exactly as before the call.                       *)
C20_FailureLeavesStateAlone ==
    [][(SearchStep /\ last'.status \in Failures)
          => /\ last'.ret = None
             /\ cache' = cache
             /\ request_count' = request_count]_vars

C20_Witness ==
    /\ last.op = "search"
    /\ last.status \in Failures
    /\ last.use_cache
    /\ last.ret = None
    /\ LastKey(last) \in DOMAIN cache
    /\ now - cache[LastKey(last)].cached_time >= CacheDuration
    /\ request_count = 1
    /\ http_requests = 2

----------------------------------------------------------------------------
(* abra/analysis/serpapi/aggregator.py: SerpAPIAggregator and              *)
(* get_brand_intelligence.  The state of an aggregator is the state of     *)
(* its client.                                                             *)

Products == <<" ", "p", "r", "o", "d", "u", "c", "t", "s">>

(* the searches of get_light_analysis, in order: base, shopping, stories *)
LightRequests(brand_name, country) ==
    <<BaseRequest(brand_name, country),
      ShoppingResultsRequest(brand_name \o Products, country),
      TopStoriesRequest(brand_name, country)>>

(* the searches of analyze_brand: base, news, stories, shopping *)
FullRequests(brand_name, country) ==
    <<BaseRequest(brand_name, country),
      GoogleNewsRequest(brand_name, country),
      TopStoriesRequest(brand_name, country),
      ShoppingResultsRequest(brand_name \o Products, country)>>

(* the searches rs[i..] made one after the other on the client state self, *)
(* https[i] being what the network answers to the i-th of them             *)
RECURSIVE SearchAll(_, _, _, _, _)
SearchAll(self, rs, https, clock, i) ==
    IF i > Len(rs) THEN [self |-> self, issued |-> 0, truthy |-> 0]
    ELSE LET s == Search(self, rs[i].engine, rs[i].params, TRUE, https[i], clock)
             rest == SearchAll(s.self, rs, https, clock, i + 1)
         IN [self |-> rest.self,
             issued |-> s.issued + rest.issued,
             truthy |-> (IF Truthy(s.ret) THEN 1 ELSE 0) + rest.truthy]

(* the dict an analysis returns, by its 'request_count' *)
AnalysisDict(count) == [kind |-> "dict", request_count |-> count]

(* SerpAPIAggregator.get_light_analysis *)
GetLightAnalysis(self, brand_name, country, https, clock) ==
    LET out == SearchAll(self, LightRequests(brand_name, country), https, clock, 1)
    IN [self |-> out.self, issued |-> out.issued, truthy |-> out.truthy,
        ret |-> AnalysisDict(out.self.request_count)]

(* SerpAPIAggregator.analyze_brand *)
AnalyzeBrand(self, brand_name, country, https, clock) ==
    LET out == SearchAll(self, FullRequests(brand_name, country), https, clock, 1)
    IN [self |-> out.self, issued |-> out.issued, truthy |-> out.truthy,
        ret |-> AnalysisDict(out.self.request_count)]

SerpAPIAggregator_SharedClient ==
    [cache |-> cache, request_count |-> request_count, stored_by |-> stored_by]

(* SerpAPIAggregator.__init__: self.client = SerpAPIClient(api_key) *)
SerpAPIAggregator == SerpAPIClient

(* get_brand_intelligence: no client without an API key; otherwise a new   *)
(* aggregator, with a new client, serves the call                          *)
GetBrandIntelligence(brand_name, country, has_key, mode, https, clock) ==
    IF ~has_key THEN [issued |-> 0, truthy |-> 0, ret |-> None]
    ELSE LET out == IF mode = "light"
                    THEN GetLightAnalysis(SerpAPIAggregator, brand_name, country,
                                          https, clock)
                    ELSE AnalyzeBrand(SerpAPIAggregator, brand_name, country,
                                      https, clock)
         IN [issued |-> out.issued, truthy |-> out.truthy, ret |-> out.ret]

----------------------------------------------------------------------------
(* One aggregator in use, and calls of get_brand_intelligence *)

MaxAnalysisRequests == 6

Brands == {Nike}

Modes == {"light", "full"}

(* what the network answers to the searches of an analysis *)
AnalysisHttp ==
    {[status |-> "ok", data |-> d] : d \in Responses}
    \cup {[status |-> "http_error", data |-> None]}

Searches(mode) == IF mode = "light" THEN 3 ELSE 4

(* aggregator = SerpAPIAggregator(api_key) *)
NewAggregator ==
    /\ cache' = SerpAPIAggregator.cache
    /\ request_count' = SerpAPIAggregator.request_count
    /\ stored_by' = SerpAPIAggregator.stored_by
    /\ last' = [op |-> "SerpAPIAggregator"]
    /\ UNCHANGED <<now, http_requests, modeler_vars, history_vars>>

(* aggregator.get_light_analysis(brand_name, country) *)
LightAnalysis(brand_name, country, https) ==
    \E out \in {GetLightAnalysis([cache |-> cache, request_count |-> request_count,
                                   stored_by |-> stored_by],
                                  brand_name, country, https, now)} :
       /\ http_requests + out.issued <= MaxAnalysisRequests
       /\ cache' = out.self.cache
       /\ request_count' = out.self.request_count
       /\ stored_by' = out.self.stored_by
       /\ http_requests' = http_requests + out.issued
       /\ last' = [op |-> "get_light_analysis", brand_name |-> brand_name,
                   country |-> country,
                   all_ok |-> \A i \in 1..3 : https[i].status = "ok",
                   issued |-> out.issued, ret |-> out.ret]
       /\ UNCHANGED <<now, modeler_vars, history_vars>>

(* the call repeats the call before it (same brand, country and mode),     *)
(* whose responses were all stored, less than cache_duration later         *)
RepeatsLast(brand_name, country, mode) ==
    /\ last.op = "get_brand_intelligence"
    /\ last.brand_name = brand_name
    /\ last.country = country
    /\ last.mode = mode
    /\ last.truthy = Searches(mode)
    /\ now - last.time < CacheDuration

(* get_brand_intelligence(brand_name, country, api_key, mode): the client  *)
(* it builds is gone when it returns; the aggregator in use is not touched *)
BrandIntelligence(brand_name, country, has_key, mode, https) ==
    \E out \in {GetBrandIntelligence(brand_name, country, has_key, mode, https, now)} :
       /\ http_requests + out.issued <= MaxAnalysisRequests
       /\ http_requests' = http_requests + out.issued
       /\ last' = [op |-> "get_brand_intelligence", brand_name |-> brand_name,
                   country |-> country, mode |-> mode, time |-> now,
                   repeats |-> RepeatsLast(brand_name, country, mode),
                   issued |-> out.issued, truthy |-> out.truthy, ret |-> out.ret]
       /\ UNCHANGED <<cache, request_count, stored_by, now, modeler_vars, history_vars>>

AggregatorNext ==
    \/ NewAggregator
    \/ \E b \in Brands, https \in [1..3 -> AnalysisHttp] :
           LightAnalysis(b, Es, https)
    \/ \E b \in Brands, has_key \in BOOLEAN, mode \in Modes :
           \E https \in (IF has_key THEN [1..Searches(mode) -> AnalysisHttp]
                          ELSE {<<>>}) :
               BrandIntelligence(b, Es, has_key, mode, https)
    \/ Tick

AggregatorSpec == Init /\ [][AggregatorNext]_vars

----------------------------------------------------------------------------
(* Properties of the aggregator *)

LightStep ==
    /\ last'.op = "get_light_analysis"
    /\ last' # last \/ http_requests' # http_requests \/ cache' # cache

(* C17: get_light_analysis issues at most 3 HTTP requests per call; on a   *)
(* fresh aggregator the request_count it returns is at most 3, and it is 3 *)
(* (with 3 requests issued) when all three requests succeed.               *)
C17_LightAnalysisAtMostThree ==
    [][LightStep =>
          /\ http_requests' - http_requests <= 3
          /\ (cache = <<>> /\ request_count = 0) =>
                /\ last'.ret.request_count <= 3
                /\ last'.all_ok =>
                      /\ last'.ret.request_count = 3
                      /\ http_requests' - http_requests = 3]_vars

C17_Witness ==
    /\ last.op = "get_light_analysis"
    /\ last.all_ok
    /\ last.issued = 3
    /\ last.ret.request_count = 3
    /\ request_count = 3
    /\ Cardinality(DOMAIN cache) = 3

IntelligenceStep ==
    /\ last'.op = "get_brand_intelligence"
    /\ last' # last \/ http_requests' # http_requests

(* C19 as stated: the cache is global, so a get_brand_intelligence call    *)
(* that repeats an earlier one (same brand and country) within the expiry  *)
(* window, all responses of which were cached, issues no new HTTP request. *)
C19_CacheSharedAcrossCalls ==
    [][(IntelligenceStep /\ last'.repeats) => http_requests' = http_requests]_vars

(* C19: the cache is state of one client, and get_brand_intelligence       *)
(* builds a new client on every call: whatever was cached before, a call   *)
(* with an API key issues one HTTP request per search (3 in light mode, 4  *)
(* in full mode) and leaves the caches of other clients alone.             *)
C19_EveryCallRequestsAfresh ==
    [][(IntelligenceStep /\ last'.ret # None) =>
          /\ http_requests' - http_requests = Searches(last'.mode)
          /\ last'.ret.request_count <= Searches(last'.mode)
          /\ cache' = cache]_vars

C19_Witness ==
    /\ last.op = "get_brand_intelligence"
    /\ last.repeats
    /\ last.issued = Searches(last.mode)
    /\ last.truthy = Searches(last.mode)
    /\ http_requests = 2 * Searches(last.mode)

----------------------------------------------------------------------------
(* abra/analysis/historical.py: the history file                           *)

(* the names bound in the module: its imports (lines 4-13) and its defs;   *)
(* a name that is not among them, nor a builtin, raises NameError when the *)
(* code reaches it                                                         *)
ModuleGlobals ==
    {"st", "pd", "np", "datetime", "timedelta", "time", "re", "json", "html",
     "os", "save_analysis_to_history", "load_analysis_history",
     "get_brand_evolution", "create_evolution_chart", "compare_with_history",
     "create_download_button"}

(* Limitar a ultimos 100 registros *)
HistoryLimit == 100

(* the list json.load reads from the file; [] if it is absent or unreadable *)
LoadedHistory(file) == IF file.kind = "list" THEN file.records ELSE <<>>

(* history[-100:] once it is longer than 100 *)
LastRecords(history) ==
    IF Len(history) > HistoryLimit
    THEN SubSeq(history, Len(history) - HistoryLimit + 1, Len(history))
    ELSE history

(* the record of a call, by what identifies it *)
Record(brand, country, channel, clock) ==
    [timestamp |-> clock, brand |-> brand, country |-> country, channel |-> channel]

(* True / False as a returned value *)
Bool(b) == [kind |-> "bool", value |-> b]

(* save_analysis_to_history: the record literal reads COUNTRIES and        *)
(* CHANNELS (lines 36, 38) before the file is touched; then load, append,  *)
(* trim and write, True if the write succeeded and False if not            *)
SaveAnalysisToHistory(file, brand, country, channel, clock, writable) ==
    IF ~({"COUNTRIES", "CHANNELS"} \subseteq ModuleGlobals)
    THEN [exit |-> "raised", exception |-> "NameError", ret |-> None, file |-> file]
    ELSE LET history == LastRecords(Append(LoadedHistory(file),
                                           Record(brand, country, channel, clock)))
         IN IF writable
            THEN [exit |-> "returned", exception |-> "none", ret |-> Bool(TRUE),
                  file |-> [kind |-> "list", records |-> history]]
            ELSE [exit |-> "returned", exception |-> "none", ret |-> Bool(FALSE),
                  file |-> file]

(* load_analysis_history *)
LoadAnalysisHistory(file) == LoadedHistory(file)

MaxSaves == 3

HistoryBrands == {"nike", "adidas"}

HistoryCountries == {"ES", "US"}

(* 'multi-channel' is what render_manual_search passes *)
HistoryChannels == {"web", "multi-channel"}

(* save_analysis_to_history(brand=..., country=geo, channel=..., results=data) *)
Save(brand, country, channel, writable) ==
    LET out == SaveAnalysisToHistory(history_file, brand, country, channel, now,
                                     writable)
    IN /\ Len(save_calls) < MaxSaves
       /\ history_file' = out.file
       /\ save_calls' = Append(save_calls, Record(brand, country, channel, now))
       /\ last' = [op |-> "save_analysis_to_history", exit |-> out.exit,
                   exception |-> out.exception, ret |-> out.ret]
       /\ UNCHANGED <<cache, request_count, now, http_requests, stored_by, modeler_vars>>

(* history = load_analysis_history() *)
Load ==
    /\ last' = [op |-> "load_analysis_history",
                ret |-> LoadAnalysisHistory(history_file)]
    /\ UNCHANGED <<cache, request_count, now, http_requests, stored_by,
                   modeler_vars, history_vars>>

HistoryNext ==
    \/ \E b \in HistoryBrands, c \in HistoryCountries, ch \in HistoryChannels,
          writable \in BOOLEAN : Save(b, c, ch, writable)
    \/ Load

HistorySpec == Init /\ [][HistoryNext]_vars

(* C18: after any sequence of save_analysis_to_history calls on one        *)
(* history file the stored history holds at most 100 records, and they     *)
(* are the most recently saved records in save order, the newest last.     *)
C18_HistoryKeepsNewest ==
    /\ Len(LoadedHistory(history_file)) <= HistoryLimit
    /\ LoadedHistory(history_file) = LastRecords(save_calls)

----------------------------------------------------------------------------
(* Expiry of cache entries *)

StaleStep == SearchStep /\ Stale(cache, LastKey(last'), now)

FreshEntry == [cached_data |-> last'.ret, cached_time |-> now]

(* C21 as stated: a search that finds an entry of age cache_duration or    *)
(* more under its key never returns it; it issues an HTTP request and, on  *)
(* success, replaces the entry with the new response and the current       *)
(* time; on failure the stale entry is kept and None is returned.          *)
C21_StaleEntryReplaced ==
    [][StaleStep =>
          /\ ~last'.hit
          /\ http_requests' = http_requests + 1
          /\ last'.status = "ok" => cache'[LastKey(last')] = FreshEntry
          /\ last'.status \in Failures => (cache' = cache /\ last'.ret = None)]_vars

(* C21: a search that finds an entry of age cache_duration or more under   *)
(* its key never returns it and issues an HTTP request; with use_cache=True *)
(* a success replaces the entry with the new response and the current      *)
(* time; with use_cache=False the cache is not written, so the stale entry *)
(* stays even on success; on failure it stays and None is returned.        *)
C21_StaleEntryNeverServed ==
    [][StaleStep =>
          /\ ~last'.hit
          /\ http_requests' = http_requests + 1
          /\ (last'.status = "ok" /\ last'.use_cache) =>
                 (cache'[LastKey(last')] = FreshEntry /\ last'.ret # None)
          /\ (last'.status = "ok" /\ ~last'.use_cache) => cache' = cache
          /\ last'.status \in Failures => (cache' = cache /\ last'.ret = None)]_vars

C21_Witness ==
    /\ last.op = "search"
    /\ last.stale
    /\ last.use_cache
    /\ last.status = "ok"
    /\ ~last.hit
    /\ cache[LastKey(last)] = [cached_data |-> last.ret, cached_time |-> now]
    /\ now >= CacheDuration
    /\ request_count = 2

----------------------------------------------------------------------------
(* C25: for a series of n >= 1 accepted observations the log-returns are   *)
(* exactly n - 1, one per adjacent pair of floored values <<current,       *)
(* previous>> in order: the previous floored value is always positive, so  *)
(* the guard skips no pair.                                                *)
C25_OneLogReturnPerPair ==
    HasResult =>
        LET vals == result.raw_data.values
            n == Len(vals)
        IN /\ n >= 1
           /\ Len(log_args.returns) = n - 1
           /\ \A i \in 1..(n - 1) :
                 /\ log_args.returns[i] = <<Floored(vals[i + 1]), Floored(vals[i])>>
                 /\ log_args.returns[i][2] > 0
           /\ LET rets == [i \in 1..(n - 1) |->
                              NpLog(Floored(vals[i + 1])).v - NpLog(Floored(vals[i])).v]
              IN /\ result.log_analysis.volatility = Volatility(rets)
                 /\ result.log_analysis.mean_log_return = MeanLogReturn(rets)

C25_Witness ==
    /\ HasResult
    /\ Len(result.raw_data.values) = 4
    /\ result.raw_data.values[1] = 0
    /\ result.raw_data.values[3] = 0
    /\ Len(log_args.returns) = 3
    /\ result.log_analysis.volatility > 0

----------------------------------------------------------------------------
(* compare_seasonality_countries (seasonality_advanced.py): the comparison *)
(* of the per-country analyses.  A dict is the sequence of its items in    *)
(* insertion order.  seasonality_score, volatility and best_r_squared are  *)
(* finite floats in every analysis calculate_seasonality_by_country        *)
(* returns, so they are compared as integers here.                         *)

(* the entry appended to comparison['countries'] for one country *)
CountryEntry(country, data) ==
    [country |-> country,
     seasonality_score |-> data.seasonality_score,
     volatility |-> data.log_analysis.volatility,
     best_model |-> data.trends.best_model,
     r_squared |-> data.trends.best_r_squared]

(* for country, data in results_by_country.items(): if not data: continue *)
RECURSIVE ListedCountries(_)
ListedCountries(items) ==
    IF items = <<>> THEN <<>>
    ELSE LET country == Head(items)[1]
             data == Head(items)[2]
             rest == ListedCountries(Tail(items))
         IN IF ~Truthy(data) THEN rest
            ELSE <<CountryEntry(country, data)>> \o rest

StaysBefore_OnlyIfGreater(placed, x, key) == placed[key] > x[key]

(* sorted(..., reverse=True) is stable: an element already placed stays    *)
(* before a later one whose key is not greater than its own                *)
StaysBefore(placed, x, key) == placed[key] >= x[key]

RECURSIVE InsertReverse(_, _, _)
InsertReverse(x, sorted, key) ==
    IF sorted = <<>> THEN <<x>>
    ELSE IF StaysBefore(Head(sorted), x, key)
         THEN <<Head(sorted)>> \o InsertReverse(x, Tail(sorted), key)
         ELSE <<x>> \o sorted

(* sorted(comparison['countries'], key=lambda x: x[key], reverse=True) *)
RECURSIVE SortedReverse(_, _)
SortedReverse(list, key) ==
    IF list = <<>> THEN <<>>
    ELSE InsertReverse(list[Len(list)],
                       SortedReverse(SubSeq(list, 1, Len(list) - 1), key), key)

CompareSeasonalityCountries(results_by_country) ==
    LET countries == ListedCountries(results_by_country)
        sorted_by_seasonality == SortedReverse(countries, "seasonality_score")
        sorted_by_volatility == SortedReverse(countries, "volatility")
        sorted_by_fit == SortedReverse(countries, "r_squared")
    IN IF countries # <<>>
       THEN [countries |-> countries,
             most_seasonal |-> sorted_by_seasonality[1],
             least_seasonal |-> sorted_by_seasonality[Len(sorted_by_seasonality)],
             most_volatile |-> sorted_by_volatility[1],
             best_trend |-> sorted_by_fit[1]]
       ELSE [countries |-> <<>>,
             most_seasonal |-> None,
             least_seasonal |-> None,
             most_volatile |-> None,
             best_trend |-> None]

(* the inputs: up to three countries in the order the caller inserted      *)
(* them, each with None, an empty dict, or an analysis whose three figures *)
(* range over 0..MaxScore                                                  *)
MaxScore == 1

ComparedCountries == <<"ES", "US", "FR">>

SeasonalityData ==
    {[kind |-> "dict", names |-> {"seasonality_score", "log_analysis", "trends"},
      seasonality_score |-> s,
      log_analysis |-> [volatility |-> v],
      trends |-> [best_model |-> "linear", best_r_squared |-> r]] :
        s \in 0..MaxScore, v \in 0..MaxScore, r \in 0..MaxScore}

ResultsByCountry ==
    UNION {{[i \in 1..n |-> <<ComparedCountries[i], f[i]>>] : f \in [1..n -> {None, Dict({})} \cup SeasonalityData]} :
              n \in 0..Len(ComparedCountries)}

(* comparison = compare_seasonality_countries(seasonality_by_country) *)
CompareCountries(results_by_country) ==
    /\ last = NoCall
    /\ last' = [op |-> "compare_seasonality_countries",
                results_by_country |-> results_by_country,
                ret |-> CompareSeasonalityCountries(results_by_country)]
    /\ UNCHANGED <<cache, request_count, now, http_requests, stored_by,
                   modeler_vars, history_vars>>

(* the page has shown the comparison and the script run is over *)
Rendered ==
    /\ last # NoCall
    /\ last' = NoCall
    /\ UNCHANGED <<cache, request_count, now, http_requests, stored_by,
                   modeler_vars, history_vars>>

CountriesNext ==
    \/ \E r \in ResultsByCountry : CompareCountries(r)
    \/ Rendered

CountriesSpec == Init /\ [][CountriesNext]_vars

(* the positions of the input whose analysis is neither None nor empty *)
Remaining(items) == {i \in 1..Len(items) : items[i][2] # None /\ items[i][2] # Dict({})}

(* the position in list of the first (or last) entry whose key is extreme *)
FirstMax(list, key) ==
    CHOOSE i \in 1..Len(list) :
        /\ \A j \in 1..Len(list) : list[j][key] <= list[i][key]
        /\ \A j \in 1..(i - 1) : list[j][key] < list[i][key]

LastMin(list, key) ==
    CHOOSE i \in 1..Len(list) :
        /\ \A j \in 1..Len(list) : list[j][key] >= list[i][key]
        /\ \A j \in (i + 1)..Len(list) : list[j][key] > list[i][key]

Compared == last.op = "compare_seasonality_countries"

(* C24: compare_seasonality_countries lists exactly the countries whose    *)
(* analysis is neither None nor empty, in input order.  When one remains,  *)
(* most_seasonal is the first listed country with the maximum              *)
(* seasonality_score, least_seasonal the last listed one with the minimum, *)
(* most_volatile the first with the maximum volatility and best_trend the  *)
(* first with the maximum r_squared.  When none remains the list is empty  *)
(* and all four are None.                                                  *)
C24_ExtremesAmongListed ==
    Compared =>
        LET items == last.results_by_country
            ret == last.ret
            listed == ret.countries
        IN /\ Len(listed) = Cardinality(Remaining(items))
           /\ \A k \in 1..Len(listed) :
                 \E i \in Remaining(items) :
                    /\ Cardinality({j \in Remaining(items) : j <= i}) = k
                    /\ listed[k].country = items[i][1]
                    /\ listed[k].seasonality_score = items[i][2].seasonality_score
                    /\ listed[k].volatility = items[i][2].log_analysis.volatility
                    /\ listed[k].r_squared = items[i][2].trends.best_r_squared
           /\ Remaining(items) # {} =>
                 /\ ret.most_seasonal = listed[FirstMax(listed, "seasonality_score")]
                 /\ ret.least_seasonal = listed[LastMin(listed, "seasonality_score")]
                 /\ ret.most_volatile = listed[FirstMax(listed, "volatility")]
                 /\ ret.best_trend = listed[FirstMax(listed, "r_squared")]
           /\ Remaining(items) = {} =>
                 /\ listed = <<>>
                 /\ ret.most_seasonal = None
                 /\ ret.least_seasonal = None
                 /\ ret.most_volatile = None
                 /\ ret.best_trend = None

(* a None analysis is skipped and two listed countries tie on every figure: *)
(* the maxima go to the first, least_seasonal to the last                   *)
C24_Witness ==
    /\ Compared
    /\ Len(last.results_by_country) = 3
    /\ last.results_by_country[2][2] = None
    /\ Len(last.ret.countries) = 2
    /\ last.ret.countries[1].seasonality_score = last.ret.countries[2].seasonality_score
    /\ last.ret.countries[1].r_squared = last.ret.countries[2].r_squared
    /\ last.ret.most_seasonal.country = "ES"
    /\ last.ret.best_trend.country = "ES"
    /\ last.ret.least_seasonal.country = "FR"

(* every analysis is None or empty: nothing is listed *)
C24_WitnessNoneRemains ==
    /\ Compared
    /\ Len(last.results_by_country) = 2
    /\ last.ret.countries = <<>>
    /\ last.ret.most_seasonal = None

----------------------------------------------------------------------------
(* compare_with_history (historical.py): the current analysis against the  *)
(* last one stored for the same brand, country and channel.  A number is   *)
(* the tagged value Number(n), a JSON null is None; a timestamp is the     *)
(* clock reading it was written at, which orders as its ISO string does.   *)

Number(n) == [kind |-> "num", v |-> n]

(* str.lower() on the brands in use *)
Lower(brand) == IF brand = "Nike" THEN "nike" ELSE brand

(* dict.get(key, default) *)
Get(dict, key, default) == IF key \in DOMAIN dict THEN dict[key] ELSE default

(* for metric in ['avg_value', 'month_change', 'quarter_change', 'year_change'] *)
Metrics == {"avg_value", "month_change", "quarter_change", "year_change"}

(* the records of history with the brand (lower-cased on both sides), the  *)
(* country and the channel of the call, in file order                      *)
RECURSIVE Relevant(_, _, _, _)
Relevant(history, brand, country, channel) ==
    IF history = <<>> THEN <<>>
    ELSE LET r == Head(history)
             rest == Relevant(Tail(history), brand, country, channel)
         IN IF /\ Lower(r.brand) = Lower(brand)
               /\ r.country = country
               /\ r.channel = channel
            THEN <<r>> \o rest
            ELSE rest

(* sorted(relevant, key=timestamp): stable, ascending *)
RECURSIVE InsertByTimestamp(_, _)
InsertByTimestamp(x, sorted) ==
    IF sorted = <<>> THEN <<x>>
    ELSE IF Head(sorted).timestamp <= x.timestamp
         THEN <<Head(sorted)>> \o InsertByTimestamp(x, Tail(sorted))
         ELSE <<x>> \o sorted

RECURSIVE SortedByTimestamp(_)
SortedByTimestamp(list) ==
    IF list = <<>> THEN <<>>
    ELSE InsertByTimestamp(list[Len(list)],
                           SortedByTimestamp(SubSeq(list, 1, Len(list) - 1)))

LastRecord_Oldest(relevant) == SortedByTimestamp(relevant)[1]

(* sorted(relevant, key=lambda x: x.get('timestamp', ''))[-1] *)
LastRecord(relevant) == SortedByTimestamp(relevant)[Len(relevant)]

(* last_record['timestamp'][:10]: the day of a reading, two readings a day *)
LastDate(timestamp) == timestamp \div 2

(* (diff / last_val * 100) if last_val != 0 else 0; the quotient is exact  *)
(* for the values in use                                                   *)
DiffPct(diff, last_val) == IF last_val # 0 THEN (diff * 100) \div last_val ELSE 0

(* comparison['changes']: an entry for every metric whose current and last *)
(* value, 0 if the key is missing, are both not None                       *)
Changes(current_data, metrics) ==
    LET current_val(m) == Get(current_data, m, Number(0))
        last_val(m) == Get(metrics, m, Number(0))
        compared == {m \in Metrics : current_val(m) # None /\ last_val(m) # None}
    IN [m \in compared |->
           LET diff == current_val(m).v - last_val(m).v
           IN [current |-> current_val(m),
               last |-> last_val(m),
               diff |-> Number(diff),
               diff_pct |-> Number(DiffPct(diff, last_val(m).v))]]

CompareWithHistory(file, brand, country, channel, current_data) ==
    LET history == LoadAnalysisHistory(file)
        relevant == Relevant(history, brand, country, channel)
    IN IF relevant = <<>> THEN None
       ELSE LET last_record == LastRecord(relevant)
            IN [kind |-> "dict",
                last_date |-> LastDate(last_record.timestamp),
                changes |-> Changes(current_data, last_record.metrics)]

(* the inputs: a history file of up to MaxRecords records, each for the    *)
(* brand, country and channel of the call or differing from it in one of   *)
(* them, written at one of two readings a day apart                        *)
MaxRecords == 2

StoredIdentities ==
    {<<"Nike", "ES", "web">>, <<"adidas", "ES", "web">>,
     <<"Nike", "US", "web">>, <<"Nike", "ES", "news">>}

(* a record holds the four metrics of its analysis, None where it had none *)
StoredMetrics ==
    {[avg_value |-> a, month_change |-> Number(2), quarter_change |-> None,
      year_change |-> None] : a \in {None, Number(0), Number(2)}}

StoredRecords ==
    {[timestamp |-> t, brand |-> id[1], country |-> id[2], channel |-> id[3],
      metrics |-> m] : t \in 1..2, id \in StoredIdentities, m \in StoredMetrics}

Histories == UNION {[1..n -> StoredRecords] : n \in 0..MaxRecords}

CurrentData ==
    {<<>>, [avg_value |-> None], [avg_value |-> Number(4)],
     [avg_value |-> Number(4), month_change |-> Number(2)]}

(* analysis_history.json as an earlier run left it *)
HistoryOnDisk ==
    /\ last = NoCall
    /\ history_file.kind = "absent"
    /\ \E records \in Histories \ {<<>>} :
          history_file' = [kind |-> "list", records |-> records]
    /\ UNCHANGED <<client_vars, modeler_vars, save_calls>>

(* comparison = compare_with_history(search_query, geo, selected_channel, data) *)
Compare(brand, country, channel, current_data) ==
    /\ last = NoCall
    /\ last' = [op |-> "compare_with_history", brand |-> brand,
                country |-> country, channel |-> channel,
                current_data |-> current_data,
                ret |-> CompareWithHistory(history_file, brand, country, channel,
                                           current_data)]
    /\ UNCHANGED <<cache, request_count, now, http_requests, stored_by,
                   modeler_vars, history_vars>>

ComparisonNext ==
    \/ HistoryOnDisk
    \/ \E current_data \in CurrentData : Compare("nike", "ES", "web", current_data)
    \/ Rendered

ComparisonSpec == Init /\ [][ComparisonNext]_vars

ComparedWithHistory == last.op = "compare_with_history"

(* the positions in the file of the records for the brand (whatever its    *)
(* case), the country and the channel of the last call                     *)
Matching ==
    {i \in 1..Len(history_file.records) :
        LET r == history_file.records[i]
        IN /\ Lower(r.brand) = Lower(last.brand)
           /\ r.country = last.country
           /\ r.channel = last.channel}

(* a metric whose key holds a number in the dict *)
Present(dict, m) == m \in DOMAIN dict /\ dict[m] # None

(* C23: compare_with_history returns None exactly when no record of the    *)
(* history has the brand (case-insensitive), country and channel of the    *)
(* call.  Otherwise it compares against one matching record whose          *)
(* timestamp no matching record exceeds: last_date is its day, and every   *)
(* metric present on both sides is reported with its two values, diff =    *)
(* current - last, and diff_pct = 0 whenever last is 0.                    *)
C23_ComparesWithLatest ==
    ComparedWithHistory =>
        /\ last.ret = None <=> Matching = {}
        /\ Matching # {} =>
              \E i \in Matching :
                 LET r == history_file.records[i]
                 IN /\ \A j \in Matching : history_file.records[j].timestamp <= r.timestamp
                    /\ last.ret.last_date = LastDate(r.timestamp)
                    /\ \A m \in Metrics :
                          (Present(last.current_data, m) /\ Present(r.metrics, m)) =>
                             /\ m \in DOMAIN last.ret.changes
                             /\ last.ret.changes[m].current = last.current_data[m]
                             /\ last.ret.changes[m].last = r.metrics[m]
                             /\ last.ret.changes[m].diff.v
                                   = last.current_data[m].v - r.metrics[m].v
                             /\ r.metrics[m].v = 0 =>
                                   last.ret.changes[m].diff_pct = Number(0)

(* two matching records, the newer one first in the file and holding 0:    *)
(* the comparison is against it, with diff 4 and diff_pct 0                *)
C23_Witness ==
    /\ ComparedWithHistory
    /\ Matching = {1, 2}
    /\ history_file.records[1].timestamp > history_file.records[2].timestamp
    /\ history_file.records[1].brand = "Nike"
    /\ history_file.records[1].metrics.avg_value = Number(0)
    /\ history_file.records[2].metrics.avg_value = Number(2)
    /\ last.ret # None
    /\ DOMAIN last.ret.changes = {"avg_value", "month_change"}
    /\ last.current_data = [avg_value |-> Number(4)]
    /\ last.ret.changes["avg_value"].last = Number(0)
    /\ last.ret.changes["avg_value"].diff = Number(4)
    /\ last.ret.changes["avg_value"].diff_pct = Number(0)

(* a history with records, none of them for the brand, country and channel *)
C23_WitnessNoMatch ==
    /\ ComparedWithHistory
    /\ Len(history_file.records) = 2
    /\ Matching = {}
    /\ last.ret = None

----------------------------------------------------------------------------
(* analyze_all_channels and consolidate_channel_data (insights.py): every  *)
(* channel of every requested country.  What the three fetches of a        *)
(* channel come to is an input: one of them raises, they return nothing,   *)
(* or they return data; queries and topics are carried as fetched.         *)

(* the names bound in the module: its imports (lines 4-12) and its defs;   *)
(* a name that is not among them, nor a builtin, raises NameError when the *)
(* code reaches it                                                         *)
InsightsGlobals ==
    {"st", "pd", "np", "datetime", "timedelta", "time", "re", "json", "html",
     "urlparse", "extract_brand_from_url", "detect_products_in_titles",
     "calculate_changes", "calculate_relevance", "filter_queries_by_categories",
     "filter_topics_by_categories", "classify_query_type",
     "calculate_seasonality", "detect_seasonal_patterns",
     "generate_seasonality_explanation", "generate_seasonality_recommendation",
     "analyze_brand", "analyze_all_channels", "consolidate_channel_data",
     "generate_cross_channel_insights", "compare_brands", "detect_alerts"}

(* channels_to_analyze = ['web', 'images', 'news', 'youtube', 'shopping'] *)
ChannelsToAnalyze == <<"web", "images", "news", "youtube", "shopping">>

(* CHANNELS[channel_key]["name"] *)
ChannelName(channel_key) ==
    CASE channel_key = "web" -> "Web Search"
      [] channel_key = "images" -> "Image Search"
      [] channel_key = "news" -> "News"
      [] channel_key = "youtube" -> "YouTube"
      [] channel_key = "shopping" -> "Shopping"

(* COUNTRIES[geo]['name'] *)
CountryName(geo) == IF geo = "ES" THEN "España" ELSE "Estados Unidos"

(* calculate_changes: four None without a timeline, else the changes and   *)
(* the average of the series, here those of a flat series at 50            *)
CalculateChanges(timeline) ==
    IF ~Truthy(timeline)
    THEN [month_change |-> None, quarter_change |-> None, year_change |-> None,
          avg_value |-> None]
    ELSE [month_change |-> Number(0), quarter_change |-> Number(0),
          year_change |-> Number(0), avg_value |-> Number(50)]

(* except Exception as e: the entry of a channel that failed *)
FailedChannel(channel_name, e) ==
    [name |-> channel_name, error |-> e, timeline |-> None, queries |-> None,
     topics |-> None, month_change |-> Number(0), quarter_change |-> Number(0),
     year_change |-> Number(0), avg_value |-> Number(0)]

(* the body of the try for one channel: the fetches are names the module   *)
(* does not bind, so reaching them raises NameError inside the try         *)
ChannelResult(channel_key, outcome) ==
    LET channel_name == ChannelName(channel_key)
        timeline == IF outcome = "data" THEN Dict({"interest_over_time"}) ELSE None
        changes == CalculateChanges(timeline)
    IN IF "get_interest_over_time" \notin InsightsGlobals
       THEN FailedChannel(channel_name, "NameError")
       ELSE IF outcome = "raises"
       THEN FailedChannel(channel_name, "Exception")
       ELSE [name |-> channel_name, timeline |-> timeline,
             queries |-> timeline, topics |-> timeline,
             month_change |-> changes.month_change,
             quarter_change |-> changes.quarter_change,
             year_change |-> changes.year_change,
             avg_value |-> changes.avg_value]

(* for channel_key in channels_to_analyze: the dict channel_results, as    *)
(* its items in insertion order                                            *)
ChannelResults(fetch) ==
    [i \in 1..Len(ChannelsToAnalyze) |->
        <<ChannelsToAnalyze[i], ChannelResult(ChannelsToAnalyze[i], fetch[ChannelsToAnalyze[i]])>>]

(* consolidate_channel_data: 'error' not in data and data.get('avg_value', *)
(* 0) > 0 compares None with 0 for a channel without data, a TypeError     *)
ConsolidateChannelData(channel_results) ==
    LET counted == {i \in 1..Len(channel_results) :
                       "error" \notin DOMAIN channel_results[i][2]}
    IN IF \E i \in counted : channel_results[i][2].avg_value = None
       THEN Raises("TypeError")
       ELSE Returns([total_channels |-> Len(channel_results),
                     channels_with_data |->
                        Cardinality({i \in counted :
                                        channel_results[i][2].avg_value.v > 0})])

(* analyze_all_channels, by what the fetches of each channel come to: for  *)
(* geo in countries, COUNTRIES[geo]['name'] (line 612) and                 *)
(* CHANNELS[channel_key] (lines 619-620) are read outside the try          *)
RECURSIVE AnalyzeAllChannels(_, _)
AnalyzeAllChannels(countries, fetch) ==
    IF countries = <<>> THEN Returns(<<>>)
    ELSE IF ~({"COUNTRIES", "CHANNELS"} \subseteq InsightsGlobals)
    THEN Raises("NameError")
    ELSE LET geo == Head(countries)
             channel_results == ChannelResults(fetch)
             consolidated == ConsolidateChannelData(channel_results)
             rest == AnalyzeAllChannels(Tail(countries), fetch)
         IN IF consolidated.exit = "raised" THEN consolidated
            ELSE IF rest.exit = "raised" THEN rest
            ELSE Returns(<<<<geo, [country |-> CountryName(geo),
                                   channels |-> channel_results,
                                   consolidated |-> consolidated.value]>>>>
                         \o rest.value)

(* the inputs: no country, one or two, and for each channel what its       *)
(* fetches come to                                                         *)
RequestedCountries == {<<>>, <<"ES">>, <<"ES", "US">>}

Fetches ==
    [{ChannelsToAnalyze[i] : i \in 1..Len(ChannelsToAnalyze)} -> {"raises", "none", "data"}]

(* all_data = analyze_all_channels(brand, countries, categories, threshold) *)
AnalyzeChannels(countries, fetch) ==
    /\ last = NoCall
    /\ \E out \in {AnalyzeAllChannels(countries, fetch)} :
          last' = [op |-> "analyze_all_channels", countries |-> countries,
                   fetch |-> fetch, exit |-> out.exit,
                   exception |-> out.exception, ret |-> out.value]
    /\ UNCHANGED <<cache, request_count, now, http_requests, stored_by,
                   modeler_vars, history_vars>>

ChannelsNext ==
    \/ \E countries \in RequestedCountries, fetch \in Fetches :
          AnalyzeChannels(countries, fetch)
    \/ Rendered

ChannelsSpec == Init /\ [][ChannelsNext]_vars

AnalyzedAllChannels == last.op = "analyze_all_channels"

(* C22: a call of analyze_all_channels returns, whatever fails in a        *)
(* channel, a result with an entry for every requested country, holding    *)
(* an entry for each of the five channels in order; the entry of a channel *)
(* whose fetch raised carries 'error', null data and zero metrics.         *)
C22_EveryChannelHasEntry ==
    AnalyzedAllChannels =>
        /\ last.exit = "returned"
        /\ Len(last.ret) = Len(last.countries)
        /\ \A g \in 1..Len(last.countries) :
              /\ last.ret[g][1] = last.countries[g]
              /\ LET channels == last.ret[g][2].channels
                 IN /\ [i \in 1..Len(channels) |-> channels[i][1]] = ChannelsToAnalyze
                    /\ \A i \in 1..Len(channels) :
                          last.fetch[channels[i][1]] = "raises" =>
                             /\ "error" \in DOMAIN channels[i][2]
                             /\ channels[i][2].timeline = None
                             /\ channels[i][2].queries = None
                             /\ channels[i][2].topics = None
                             /\ channels[i][2].month_change = Number(0)
                             /\ channels[i][2].quarter_change = Number(0)
                             /\ channels[i][2].year_change = Number(0)
                             /\ channels[i][2].avg_value = Number(0)

====
